---- MODULE Spec2Model ----
(***************************************************************************)
(* A model of ZeroTier's Topology (node/Topology.hpp): the peer registry,  *)
(* the root set, the path cache and the physical path configuration table, *)
(* called concurrently by several threads.                                 *)
(*                                                                         *)
(* A handler whose whole body runs under one scoped lock is one action     *)
(* whose guard is that the lock can be taken (taking and releasing happen  *)
(* inside the step).  eachPeer, getPath and doPeriodicTasks keep a lock    *)
(* over several steps or take more than one lock, so they are split at     *)
(* their lock operations and the holder is recorded in _peers_l/_paths_l.  *)
(***************************************************************************)
EXTENDS Integers, Sequences, FiniteSets

(*************************** bounds of the model ***************************)
NumThreads == 2
NumAddrs == 2
NumIds == 3
MaxPeer == 4
NumKeys == 2
MaxPathObjs == 2
MaxTime == 2

Threads == 1..NumThreads
Addrs == 1..NumAddrs
Identities == 1..NumIds
PeerObjs == 1..MaxPeer
Keys == 1..NumKeys
Times == 1..MaxTime

(************************ values and collaborators *************************)
\* SharedPtr<Peer>() : the empty peer handle
NullPeer == 0
\* SharedPtr<Path>() : the empty path handle
NullPath == 0
\* Identity() : the empty identity
NullIdentity == 0
\* the identity the Topology was constructed with
_myIdentity == 1

\* Identity::address(): several identities can share one (short) address
IdAddress(id) == ((id - 1) % NumAddrs) + 1
\* Peer::identity(): fixed at the peer's construction
PeerIdentity(p) == (p % NumIds) + 1
\* Peer::address()
PeerAddress(p) == IdAddress(PeerIdentity(p))
\* Peer::latency() as measured at time now
Latency(p, now) == (p * now) % 3

VARIABLES
    _peers,       \* Hashtable<Address,SharedPtr<Peer>>: address -> peer or NullPeer
    _roots,       \* std::set<Identity>
    _rootPeers,   \* std::vector<SharedPtr<Peer>>
    _paths,       \* Hashtable<Path::HashKey,SharedPtr<Path>>: [slots, val]
    pathsMade,    \* Path objects constructed so far (object n is the n-th)
    _peers_l,     \* RWMutex: [w |-> writer or 0, r |-> set of readers]
    _paths_l,     \* RWMutex
    _physicalPathConfig,          \* array of [net, bits, trustedPathId, mtu]
    _numConfiguredPhysicalPaths,
    cfgWrite,     \* the reconfiguration in progress: [old, new] tables, or NoWrite
    pc,           \* where each thread is
    arg,          \* the argument of the call a thread is in
    loc,          \* the locals of the call a thread is in
    hist          \* what the calls returned so far (observations only)

vars == <<_peers, _roots, _rootPeers, _paths, pathsMade, _peers_l, _paths_l,
          _physicalPathConfig, _numConfiguredPhysicalPaths, cfgWrite,
          pc, arg, loc, hist>>

peerVars == <<_peers, _roots, _rootPeers>>
pathVars == <<_paths, pathsMade>>
physVars == <<_physicalPathConfig, _numConfiguredPhysicalPaths, cfgWrite>>
lockVars == <<_peers_l, _paths_l>>
threadVars == <<pc, arg, loc>>

NoLoc == [k |-> "none"]
NoWrite == [k |-> "none"]

(******************************** RWMutex **********************************)
CanLock(l) == l.w = 0 /\ l.r = {}
CanRLock(l) == l.w = 0
Locked(l, t) == [l EXCEPT !.w = t]
RLocked(l, t) == [l EXCEPT !.r = @ \cup {t}]
Unlocked(l, t) == [w |-> IF l.w = t THEN 0 ELSE l.w, r |-> l.r \ {t}]
Holds(l, t) == l.w = t \/ t \in l.r

(************************ observations of returns **************************)
\* add or get for address a returned the handle r.  Remembered per address:
\*   canon    the first object answered since the address was (re)registered
\*   split    a later answer was another object than canon
\*   gotFirst the first object get ever answered
\*   differs  after that, add or get answered another object than gotFirst
\* and once: canonicalized, an add answered another object than it was given.
Observe(h, a, r, isGet, given) ==
    IF r = NullPeer THEN h
    ELSE [h EXCEPT !.canon[a] = IF @ = NullPeer THEN r ELSE @,
                   !.split[a] = @ \/ (h.canon[a] # NullPeer /\ r # h.canon[a]),
                   !.gotFirst[a] = IF @ = NullPeer /\ isGet THEN r ELSE @,
                   !.differs[a] = @ \/ (h.gotFirst[a] # NullPeer /\ r # h.gotFirst[a]),
                   !.canonicalized = @ \/ (~isGet /\ r # given)]

(****************************** PeerRegistry *******************************)
\* Mutant of AddInsert: the passed peer replaces the registered one.
AddInsertReplacing(hp, peer) == peer

\* lines 64-65: if (!hp) hp = peer;
AddInsert(hp, peer) == IF hp = NullPeer THEN peer ELSE hp

\* A thread calls add(peer) and waits for the exclusive peer lock.
addCall(t, peer) ==
    /\ pc[t] = "idle"
    /\ pc' = [pc EXCEPT ![t] = "add"]
    /\ arg' = [arg EXCEPT ![t] = peer]
    /\ UNCHANGED <<peerVars, pathVars, physVars, lockVars, loc, hist>>

\* add(peer): under the exclusive peer lock, insert if absent, return the
\* entry; the caller goes on where it called from.
add(t) ==
    /\ pc[t] = "add"
    /\ CanLock(_peers_l)
    /\ LET a == PeerAddress(arg[t])
           hp == AddInsert(_peers[a], arg[t])
       IN /\ _peers' = [_peers EXCEPT ![a] = hp]
          /\ hist' = Observe(hist, a, hp, FALSE, arg[t])
    /\ pc' = [pc EXCEPT ![t] = IF loc[t].k = "each" THEN "each" ELSE "idle"]
    /\ arg' = [arg EXCEPT ![t] = 0]
    /\ UNCHANGED <<_roots, _rootPeers, pathVars, physVars, lockVars, loc>>

\* lines 79-80: (ap) ? *ap : SharedPtr<Peer>()
getReturn(zta) == IF _peers[zta] # NullPeer THEN _peers[zta] ELSE NullPeer

\* get(zta): under the shared peer lock, the entry or the empty handle.
get(t, zta) ==
    /\ pc[t] = "idle"
    /\ CanRLock(_peers_l)
    /\ hist' = Observe(hist, zta, getReturn(zta), TRUE, NullPeer)
    /\ UNCHANGED <<peerVars, pathVars, physVars, lockVars, threadVars>>

\* Mutant of getIdentity: no shortcut for the local address.
getIdentityLookupOnly(t, zta) ==
    /\ pc[t] = "idle"
    /\ CanRLock(_peers_l)
    /\ hist' = [hist EXCEPT !.lastId =
                  <<zta, _peers[zta],
                    IF _peers[zta] # NullPeer THEN PeerIdentity(_peers[zta])
                    ELSE NullIdentity>>,
                            !.lastQuery = <<>>]
    /\ UNCHANGED <<peerVars, pathVars, physVars, lockVars, threadVars>>

\* getIdentity(zta): the local identity for the local address, without a lock;
\* otherwise, under the shared peer lock, the identity of the registered peer
\* or the empty identity.  Of the queries of the registry and the root set
\* hist keeps the latest (lastId, lastQuery).
getIdentity(t, zta) ==
    /\ pc[t] = "idle"
    /\ IF zta = IdAddress(_myIdentity)
       THEN hist' = [hist EXCEPT !.lastId = <<zta, _peers[zta], _myIdentity>>,
                                 !.lastQuery = <<>>]
       ELSE /\ CanRLock(_peers_l)
            /\ hist' = [hist EXCEPT !.lastId =
                          <<zta, _peers[zta],
                            IF _peers[zta] # NullPeer THEN PeerIdentity(_peers[zta])
                            ELSE NullIdentity>>,
                                    !.lastQuery = <<>>]
    /\ UNCHANGED <<peerVars, pathVars, physVars, lockVars, threadVars>>

\* Hashtable::Iterator::next over the live table: the next occupied address
\* after the cursor, or 0 at the end.
IterNext(cursor) ==
    LET rest == {a \in Addrs : a > cursor /\ _peers[a] # NullPeer}
    IN IF rest = {} THEN 0 ELSE CHOOSE a \in rest : \A b \in rest : a <= b

\* Mutant of eachPeer_begin: the traversal starts without the peer lock.
eachPeer_beginUnlocked(t) ==
    /\ pc[t] = "idle"
    /\ pc' = [pc EXCEPT ![t] = "each"]
    /\ loc' = [loc EXCEPT ![t] = [k |-> "each", start |-> _peers, cursor |-> 0,
                                  visited |-> <<>>, stopped |-> FALSE]]
    /\ UNCHANGED <<peerVars, pathVars, physVars, lockVars, arg, hist>>

\* eachPeer, line 169-172: take the shared peer lock and open the iterator.
eachPeer_begin(t) ==
    /\ pc[t] = "idle"
    /\ CanRLock(_peers_l)
    /\ _peers_l' = RLocked(_peers_l, t)
    /\ pc' = [pc EXCEPT ![t] = "each"]
    /\ loc' = [loc EXCEPT ![t] = [k |-> "each", start |-> _peers, cursor |-> 0,
                                  visited |-> <<>>, stopped |-> FALSE]]
    /\ UNCHANGED <<peerVars, pathVars, physVars, _paths_l, arg, hist>>

\* eachPeer, lines 173-175: one turn of the loop; the visitor answers go on.
eachPeer_visit(t, goOn) ==
    /\ pc[t] = "each"
    /\ ~loc[t].stopped
    /\ IterNext(loc[t].cursor) # 0
    /\ LET a == IterNext(loc[t].cursor)
       IN loc' = [loc EXCEPT ![t].cursor = a,
                             ![t].visited = Append(@, _peers[a]),
                             ![t].stopped = ~goOn]
    /\ UNCHANGED <<peerVars, pathVars, physVars, lockVars, pc, arg, hist>>

\* eachPeer, line 174: the visitor f, handed the next peer, calls add(peer) on
\* the same Topology: the thread asks for the exclusive peer lock inside the
\* traversal.
eachPeer_visitAdd(t, peer) ==
    /\ pc[t] = "each"
    /\ ~loc[t].stopped
    /\ IterNext(loc[t].cursor) # 0
    /\ LET a == IterNext(loc[t].cursor)
       IN loc' = [loc EXCEPT ![t].cursor = a,
                             ![t].visited = Append(@, _peers[a])]
    /\ pc' = [pc EXCEPT ![t] = "add"]
    /\ arg' = [arg EXCEPT ![t] = peer]
    /\ UNCHANGED <<peerVars, pathVars, physVars, lockVars, hist>>

\* eachPeer, line 177: the loop is over, the shared lock is released.
eachPeer_end(t) ==
    /\ pc[t] = "each"
    /\ loc[t].stopped \/ IterNext(loc[t].cursor) = 0
    /\ _peers_l' = Unlocked(_peers_l, t)
    /\ pc' = [pc EXCEPT ![t] = "idle"]
    /\ loc' = [loc EXCEPT ![t] = NoLoc]
    /\ UNCHANGED <<peerVars, pathVars, physVars, _paths_l, arg, hist>>

(********************************* RootSet *********************************)
\* The peers currently registered under the identities of the root set.
RootPeerSet(peers, roots) ==
    {p \in PeerObjs : PeerIdentity(p) \in roots /\ peers[PeerAddress(p)] = p}

IsSortedAt(s, now) ==
    \A i \in 1..Len(s) : \A j \in 1..Len(s) :
        i < j => Latency(s[i], now) <= Latency(s[j], now)

Orders(S) ==
    {s \in [1..Cardinality(S) -> S] :
        \A i \in 1..Cardinality(S) : \A j \in 1..Cardinality(S) : s[i] = s[j] => i = j}

\* Mutant of RankedLists: the list is rebuilt but left unsorted.
RankedListsUnsorted(peers, roots, now) == Orders(RootPeerSet(peers, roots))

\* rankRoots: every order of the registered root peers that ascends in latency
\* (the sort puts peers of equal latency in any order).
RankedLists(peers, roots, now) ==
    {s \in Orders(RootPeerSet(peers, roots)) : IsSortedAt(s, now)}

\* root(): the first ranked root, or the empty handle.
root == IF _rootPeers = <<>> THEN NullPeer ELSE Head(_rootPeers)

\* isRoot(id)
isRoot(id) == id \in _roots

\* Mutant of findRelayTo: a destination that is itself a ranked root is its
\* own relay.
findRelayToDirect(now, toAddr) ==
    IF _rootPeers = <<>> THEN NullPeer
    ELSE IF \E i \in 1..Len(_rootPeers) : _rootPeers[i] = _peers[toAddr]
    THEN _peers[toAddr]
    ELSE _rootPeers[1]

\* findRelayTo(now, toAddr)
findRelayTo(now, toAddr) == IF _rootPeers = <<>> THEN NullPeer ELSE _rootPeers[1]

\* A thread calls root(): answered under the shared peer lock.
root_call(t) ==
    /\ pc[t] = "idle"
    /\ CanRLock(_peers_l)
    /\ hist' = [hist EXCEPT !.lastQuery = <<"root", root>>, !.lastId = <<>>]
    /\ UNCHANGED <<peerVars, pathVars, physVars, lockVars, threadVars>>

\* A thread calls isRoot(id): answered under the shared peer lock.
isRoot_call(t, id) ==
    /\ pc[t] = "idle"
    /\ CanRLock(_peers_l)
    /\ hist' = [hist EXCEPT !.lastQuery = <<"isRoot", isRoot(id)>>, !.lastId = <<>>]
    /\ UNCHANGED <<peerVars, pathVars, physVars, lockVars, threadVars>>

\* Mutant of findRelayTo_call: the roots are ranked anew at now for the answer.
findRelayTo_callRanking(t, now, toAddr) ==
    /\ pc[t] = "idle"
    /\ CanRLock(_peers_l)
    /\ _rootPeers' \in RankedLists(_peers, _roots, now)
    /\ hist' = [hist EXCEPT !.lastQuery =
                  <<"findRelayTo", toAddr,
                    IF _rootPeers' = <<>> THEN NullPeer ELSE _rootPeers'[1]>>,
                            !.lastId = <<>>]
    /\ UNCHANGED <<_peers, _roots, pathVars, physVars, lockVars, threadVars>>

\* A thread calls findRelayTo(now, toAddr): answered under the shared peer lock.
findRelayTo_call(t, now, toAddr) ==
    /\ pc[t] = "idle"
    /\ CanRLock(_peers_l)
    /\ hist' = [hist EXCEPT !.lastQuery = <<"findRelayTo", toAddr, findRelayTo(now, toAddr)>>,
                            !.lastId = <<>>]
    /\ UNCHANGED <<peerVars, pathVars, physVars, lockVars, threadVars>>

\* Mutant of addRoot: the registered peer of the identity is ranked at once.
addRootRanking(t, id) ==
    /\ pc[t] = "idle"
    /\ CanLock(_peers_l)
    /\ _roots' = _roots \cup {id}
    /\ _rootPeers' =
          IF \E p \in RootPeerSet(_peers, {id}) :
                \A i \in 1..Len(_rootPeers) : _rootPeers[i] # p
          THEN Append(_rootPeers, CHOOSE p \in RootPeerSet(_peers, {id}) : TRUE)
          ELSE _rootPeers
    /\ UNCHANGED <<_peers, pathVars, physVars, lockVars, threadVars, hist>>

\* addRoot(id): the identity joins the membership set; the ranked list is
\* left for the next rankRoots.
addRoot(t, id) ==
    /\ pc[t] = "idle"
    /\ CanLock(_peers_l)
    /\ _roots' = _roots \cup {id}
    /\ UNCHANGED <<_peers, _rootPeers, pathVars, physVars, lockVars, threadVars, hist>>

\* what removeRoot(id) returns: whether the identity was a member
removeRootReturn(id) == id \in _roots

\* Mutant of removeRoot: the ranked list is rebuilt whatever the answer.
removeRootReranking(t, id) ==
    /\ pc[t] = "idle"
    /\ CanLock(_peers_l)
    /\ _roots' = _roots \ {id}
    /\ \E now \in Times : _rootPeers' \in RankedLists(_peers, _roots \ {id}, now)
    /\ UNCHANGED <<_peers, pathVars, physVars, lockVars, threadVars, hist>>

\* removeRoot(id): the identity leaves the membership set and its peer leaves
\* the ranked list; nothing happens when it was no member.
removeRoot(t, id) ==
    /\ pc[t] = "idle"
    /\ CanLock(_peers_l)
    /\ IF removeRootReturn(id)
       THEN /\ _roots' = _roots \ {id}
            /\ _rootPeers' = SelectSeq(_rootPeers, LAMBDA p : PeerIdentity(p) # id)
       ELSE UNCHANGED <<_roots, _rootPeers>>
    /\ UNCHANGED <<_peers, pathVars, physVars, lockVars, threadVars, hist>>

\* rankRoots(now): the ranked list is rebuilt from the membership set and the
\* registry, sorted by latency at now.
rankRoots(t, now) ==
    /\ pc[t] = "idle"
    /\ CanLock(_peers_l)
    /\ _rootPeers' \in RankedLists(_peers, _roots, now)
    /\ UNCHANGED <<_peers, _roots, pathVars, physVars, lockVars, threadVars, hist>>

(***************************** doPeriodicTasks *****************************)
\* doPeriodicTasks(now): take the exclusive peer lock.
doPeriodicTasks_lockPeers(t, now) ==
    /\ pc[t] = "idle"
    /\ CanLock(_peers_l)
    /\ _peers_l' = Locked(_peers_l, t)
    /\ pc' = [pc EXCEPT ![t] = "dpt_peers"]
    /\ arg' = [arg EXCEPT ![t] = now]
    /\ UNCHANGED <<peerVars, pathVars, physVars, _paths_l, loc, hist>>

\* doPeriodicTasks: re-rank the roots, drop the peers their collaborators call
\* stale, release the peer lock.
doPeriodicTasks_peers(t, stale) ==
    /\ pc[t] = "dpt_peers"
    /\ \A a \in stale : _peers[a] # NullPeer
    /\ _rootPeers' \in RankedLists(_peers, _roots, arg[t])
    /\ _peers' = [a \in Addrs |-> IF a \in stale THEN NullPeer ELSE _peers[a]]
    /\ hist' = [hist EXCEPT
                  !.canon = [a \in Addrs |-> IF a \in stale THEN NullPeer ELSE @[a]],
                  !.evictedAfterGot =
                      [a \in Addrs |-> @[a] \/ (a \in stale /\ hist.gotFirst[a] # NullPeer)]]
    /\ _peers_l' = Unlocked(_peers_l, t)
    /\ pc' = [pc EXCEPT ![t] = "dpt_mid"]
    /\ arg' = [arg EXCEPT ![t] = 0]
    /\ UNCHANGED <<_roots, pathVars, physVars, _paths_l, loc>>

\* doPeriodicTasks: take the exclusive path lock.
doPeriodicTasks_lockPaths(t) ==
    /\ pc[t] = "dpt_mid"
    /\ CanLock(_paths_l)
    /\ _paths_l' = Locked(_paths_l, t)
    /\ pc' = [pc EXCEPT ![t] = "dpt_paths"]
    /\ UNCHANGED <<peerVars, pathVars, physVars, _peers_l, arg, loc, hist>>

\* doPeriodicTasks: drop the stale paths, release the path lock, return.
doPeriodicTasks_paths(t, stale) ==
    /\ pc[t] = "dpt_paths"
    /\ \A k \in stale : k \in _paths.slots
    /\ _paths' = [slots |-> _paths.slots \ stale,
                  val |-> [k \in Keys |-> IF k \in stale THEN NullPath ELSE _paths.val[k]]]
    /\ hist' = [hist EXCEPT !.pathEvicted =
                  [k \in Keys |-> @[k] \/ (k \in stale /\ _paths.val[k] # NullPath)]]
    /\ _paths_l' = Unlocked(_paths_l, t)
    /\ pc' = [pc EXCEPT ![t] = "idle"]
    /\ UNCHANGED <<peerVars, pathsMade, physVars, _peers_l, arg, loc>>

(******************************** PathCache ********************************)
\* Hashtable::operator[] : the slot of k exists afterwards (empty when new).
WithSlot(paths, k) == [paths EXCEPT !.slots = @ \cup {k}]

\* What the calls of getPath are remembered by, per key:
\*   pathCanon  the first Path object constructed for the key
\*   pathSplit  another object was constructed for it, or a call returned a
\*              non-empty handle that is not pathCanon
\* and lastPath, the key, the handle and the outcome of the latest return.
ObservePath(h, k, r, failed) ==
    [h EXCEPT !.pathSplit[k] = @ \/ (r # NullPath /\ r # h.pathCanon[k]),
              !.lastPath = <<k, r, failed>>]

ObserveMade(h, k, made) ==
    [h EXCEPT !.pathCanon[k] = IF @ = NullPath THEN made ELSE @,
              !.pathSplit[k] = @ \/ h.pathCanon[k] # NullPath]

\* getPath, lines 110-112: take the shared path lock.
getPath_rlock(t, k) ==
    /\ pc[t] = "idle"
    /\ CanRLock(_paths_l)
    /\ _paths_l' = RLocked(_paths_l, t)
    /\ pc' = [pc EXCEPT ![t] = "gp_r"]
    /\ arg' = [arg EXCEPT ![t] = k]
    /\ UNCHANGED <<peerVars, pathVars, physVars, _peers_l, loc, hist>>

\* getPath, line 113: p(_paths[k]) under the shared lock.  operator[] makes
\* the slot when it is missing; with another thread in the shared section
\* that write is a data race, and the new (empty) slot may be lost.
getPath_lookup(t, kept) ==
    /\ pc[t] = "gp_r"
    /\ kept \/ (arg[t] \notin _paths.slots /\ _paths_l.r # {t})
    /\ _paths' = IF kept THEN WithSlot(_paths, arg[t]) ELSE _paths
    /\ loc' = [loc EXCEPT ![t] = [k |-> "gp", p |-> _paths.val[arg[t]]]]
    /\ pc' = [pc EXCEPT ![t] = "gp_r2"]
    /\ UNCHANGED <<peerVars, pathsMade, physVars, lockVars, arg, hist>>

\* getPath, lines 114-116: release the shared lock; return p when it is set.
getPath_runlock(t) ==
    /\ pc[t] = "gp_r2"
    /\ _paths_l' = Unlocked(_paths_l, t)
    /\ IF loc[t].p # NullPath
       THEN /\ hist' = ObservePath(hist, arg[t], loc[t].p, FALSE)
            /\ pc' = [pc EXCEPT ![t] = "idle"]
            /\ arg' = [arg EXCEPT ![t] = 0]
            /\ loc' = [loc EXCEPT ![t] = NoLoc]
       ELSE /\ pc' = [pc EXCEPT ![t] = "gp_miss"]
            /\ UNCHANGED <<arg, loc, hist>>
    /\ UNCHANGED <<peerVars, pathVars, physVars, _peers_l>>

\* getPath, line 118: take the exclusive path lock.
getPath_lock(t) ==
    /\ pc[t] = "gp_miss"
    /\ CanLock(_paths_l)
    /\ _paths_l' = Locked(_paths_l, t)
    /\ pc' = [pc EXCEPT ![t] = "gp_w"]
    /\ UNCHANGED <<peerVars, pathVars, physVars, _peers_l, arg, loc, hist>>

\* new Path(l,r) can succeed only while the allocator has room.
CanConstruct == pathsMade < MaxPathObjs

\* Mutant of Present: the second look under the exclusive lock finds nothing.
PresentNever(p2) == FALSE

\* line 120: if (p2)
Present(p2) == p2 # NullPath

\* Mutant of CatchUnlock: the catch branch returns without unlocking.
CatchNoUnlock(l, t) == l

\* line 126: _paths_l.unlock() in the catch branch
CatchUnlock(l, t) == Unlocked(l, t)

\* getPath, lines 119-133: under the exclusive lock look again; take what is
\* there, or construct a Path and store it; a failed construction returns the
\* empty handle.  The lock is released in every branch.
getPath_create(t, ok) ==
    /\ pc[t] = "gp_w"
    /\ LET k == arg[t]
           p2 == _paths.val[k]
           made == pathsMade + 1
       IN IF Present(p2)
          THEN /\ ok
               /\ _paths' = WithSlot(_paths, k)
               /\ hist' = ObservePath(hist, k, p2, FALSE)
               /\ _paths_l' = Unlocked(_paths_l, t)
               /\ UNCHANGED pathsMade
          ELSE IF ok
          THEN /\ CanConstruct
               /\ pathsMade' = made
               /\ _paths' = [slots |-> _paths.slots \cup {k},
                             val |-> [_paths.val EXCEPT ![k] = made]]
               /\ hist' = ObservePath(ObserveMade(hist, k, made), k, made, FALSE)
               /\ _paths_l' = Unlocked(_paths_l, t)
          ELSE /\ _paths' = WithSlot(_paths, k)
               /\ hist' = ObservePath(hist, k, NullPath, TRUE)
               /\ _paths_l' = CatchUnlock(_paths_l, t)
               /\ UNCHANGED pathsMade
    /\ pc' = [pc EXCEPT ![t] = "idle"]
    /\ arg' = [arg EXCEPT ![t] = 0]
    /\ loc' = [loc EXCEPT ![t] = NoLoc]
    /\ UNCHANGED <<peerVars, physVars, _peers_l>>

(************************* PhysicalPathConfigTable *************************)
\* the capacity of the table (scaled down)
ZT_MAX_CONFIGURABLE_PATHS == 2
AddrBits == 2
MaxTrustId == 2
NumMtus == 1

RECURSIVE Pow2(_)
Pow2(n) == IF n = 0 THEN 1 ELSE 2 * Pow2(n - 1)

PhysAddrs == 0..(Pow2(AddrBits) - 1)
TrustIds == 0..MaxTrustId
Mtus == 1..NumMtus
\* the networks net/bits whose host bits are zero
Subnets ==
    {s \in PhysAddrs \X (0..AddrBits) : s[1] % Pow2(AddrBits - s[2]) = 0}
PathConfigs == [trustedPathId : TrustIds, mtu : Mtus]
NoConfig == [trustedPathId |-> 0, mtu |-> 0]
\* InetAddress(): the nil address of a slot never written, which is no network
NilNet == <<-1, 0>>
\* the values a caller's result variables hold before getOutboundPathInfo
Outs == {NoConfig, [trustedPathId |-> MaxTrustId, mtu |-> NumMtus]}

\* InetAddress::containsAddress: the first bits of the address are the network's
containsAddress(net, addr) ==
    /\ net # NilNet
    /\ addr \div Pow2(AddrBits - net[2]) = net[1] \div Pow2(AddrBits - net[2])

\* Mutant of InfoScan: the loop does not stop at the first match.
RECURSIVE InfoScanLast(_, _, _, _)
InfoScanLast(i, j, physicalAddress, out) ==
    IF i >= j THEN out
    ELSE InfoScanLast(i + 1, j, physicalAddress,
            IF containsAddress(_physicalPathConfig[i + 1].first, physicalAddress)
            THEN [trustedPathId |-> _physicalPathConfig[i + 1].second.trustedPathId,
                  mtu |-> _physicalPathConfig[i + 1].second.mtu]
            ELSE out)

\* the loop of lines 238-244, from index i (0-based) up to j
RECURSIVE InfoScan(_, _, _, _)
InfoScan(i, j, physicalAddress, out) ==
    IF i >= j THEN out
    ELSE IF containsAddress(_physicalPathConfig[i + 1].first, physicalAddress)
    THEN [trustedPathId |-> _physicalPathConfig[i + 1].second.trustedPathId,
          mtu |-> _physicalPathConfig[i + 1].second.mtu]
    ELSE InfoScan(i + 1, j, physicalAddress, out)

\* getOutboundPathInfo(physicalAddress, mtu, trustedPathId): out holds the two
\* result variables as the caller passed them
getOutboundPathInfo(physicalAddress, out) ==
    InfoScan(0, _numConfiguredPhysicalPaths, physicalAddress, out)

\* the loop of lines 255-258
RECURSIVE TrustScan(_, _, _)
TrustScan(i, j, physicalAddress) ==
    IF i >= j THEN 0
    ELSE IF containsAddress(_physicalPathConfig[i + 1].first, physicalAddress)
    THEN _physicalPathConfig[i + 1].second.trustedPathId
    ELSE TrustScan(i + 1, j, physicalAddress)

\* getOutboundPathTrust(physicalAddress)
getOutboundPathTrust(physicalAddress) ==
    TrustScan(0, _numConfiguredPhysicalPaths, physicalAddress)

\* the loop of lines 270-273
RECURSIVE InboundScan(_, _, _, _)
InboundScan(i, j, physicalAddress, trustedPathId) ==
    IF i >= j THEN FALSE
    ELSE IF /\ _physicalPathConfig[i + 1].second.trustedPathId = trustedPathId
            /\ containsAddress(_physicalPathConfig[i + 1].first, physicalAddress)
    THEN TRUE
    ELSE InboundScan(i + 1, j, physicalAddress, trustedPathId)

\* Mutant of shouldInboundPathBeTrusted: the id of the first network that
\* contains the address decides.
shouldInboundFirstMatch(physicalAddress, trustedPathId) ==
    /\ \E i \in 1.._numConfiguredPhysicalPaths :
          containsAddress(_physicalPathConfig[i].first, physicalAddress)
    /\ getOutboundPathTrust(physicalAddress) = trustedPathId

\* shouldInboundPathBeTrusted(physicalAddress, trustedPathId)
shouldInboundPathBeTrusted(physicalAddress, trustedPathId) ==
    InboundScan(0, _numConfiguredPhysicalPaths, physicalAddress, trustedPathId)

\* A caller asks shouldInboundPathBeTrusted; no lock is involved.  Of the
\* calls on the table hist keeps the latest: a lookup of the table as it is
\* now (lastTrust, lastLookup), or a reconfiguration refused (cfgError).
shouldInboundPathBeTrusted_call(physicalAddress, trustedPathId) ==
    /\ hist' = [hist EXCEPT !.lastTrust =
                  <<physicalAddress, trustedPathId,
                    shouldInboundPathBeTrusted(physicalAddress, trustedPathId)>>,
                            !.lastLookup = <<>>, !.cfgError = FALSE]
    /\ UNCHANGED <<peerVars, pathVars, physVars, lockVars, threadVars>>

\* A caller asks getOutboundPathInfo with its two result variables holding out.
getOutboundPathInfo_call(physicalAddress, out) ==
    /\ hist' = [hist EXCEPT !.lastLookup =
                  <<"info", physicalAddress, out,
                    getOutboundPathInfo(physicalAddress, out)>>,
                            !.lastTrust = <<>>, !.cfgError = FALSE]
    /\ UNCHANGED <<peerVars, pathVars, physVars, lockVars, threadVars>>

\* A caller asks getOutboundPathTrust.
getOutboundPathTrust_call(physicalAddress) ==
    /\ hist' = [hist EXCEPT !.lastLookup =
                  <<"trust", physicalAddress, getOutboundPathTrust(physicalAddress)>>,
                            !.lastTrust = <<>>, !.cfgError = FALSE]
    /\ UNCHANGED <<peerVars, pathVars, physVars, lockVars, threadVars>>

\* the index (1-based) of the entry of a network, or 0
EntryOf(net) ==
    LET at == {i \in 1.._numConfiguredPhysicalPaths : _physicalPathConfig[i].first = net}
    IN IF at = {} THEN 0 ELSE CHOOSE i \in at : TRUE

\* the two members as one value
Table == [cfg |-> _physicalPathConfig, n |-> _numConfiguredPhysicalPaths]

\* Mutant of TableFull: a full table is not noticed.
TableNeverFull(pathNetwork, pathConfig) == FALSE

\* a new network while the table is full
TableFull(pathNetwork, pathConfig) ==
    /\ pathConfig # NoConfig
    /\ EntryOf(pathNetwork) = 0
    /\ _numConfiguredPhysicalPaths = ZT_MAX_CONFIGURABLE_PATHS

\* The table a call is to leave: the entry of the network is replaced, added,
\* or (pathConfig = NoConfig for the null pointer) removed, the later entries
\* moving down and the vacated slot reset; a new network with the table full
\* changes nothing.
NewTable(pathNetwork, pathConfig) ==
    LET n == _numConfiguredPhysicalPaths
        e == EntryOf(pathNetwork)
    IN IF pathConfig = NoConfig
       THEN IF e = 0 THEN Table
            ELSE [cfg |-> [i \in 1..ZT_MAX_CONFIGURABLE_PATHS |->
                             IF i >= e /\ i < n THEN _physicalPathConfig[i + 1]
                             ELSE IF i = n THEN [first |-> NilNet, second |-> NoConfig]
                             ELSE _physicalPathConfig[i]],
                  n |-> n - 1]
       ELSE IF e # 0
            THEN [cfg |-> [_physicalPathConfig EXCEPT ![e].second = pathConfig], n |-> n]
            ELSE IF n < ZT_MAX_CONFIGURABLE_PATHS
            THEN [cfg |-> [_physicalPathConfig EXCEPT
                             ![n + 1] = [first |-> pathNetwork, second |-> pathConfig]],
                  n |-> n + 1]
            ELSE Table

\* What a store writes: the count (0) or one element (1..) of the array.
Stores == 0..ZT_MAX_CONFIGURABLE_PATHS
ToStore(cur, new) ==
    {c \in Stores : IF c = 0 THEN cur.n # new.n ELSE cur.cfg[c] # new.cfg[c]}
Stored(cur, new, c) ==
    IF c = 0 THEN [cur EXCEPT !.n = new.n] ELSE [cur EXCEPT !.cfg[c] = new.cfg[c]]

\* One store of a reconfiguration, towards the table new; the call returns
\* with the last one.  The members are plain (no lock, no atomics), so the
\* stores reach the readers one by one, in an order the build chooses.
StoreStep(old, new, c) ==
    LET after == Stored(Table, new, c)
    IN /\ c \in ToStore(Table, new)
       /\ _physicalPathConfig' = after.cfg
       /\ _numConfiguredPhysicalPaths' = after.n
       /\ IF after = new
          THEN /\ cfgWrite' = NoWrite
               /\ hist' = [hist EXCEPT !.cfgError = FALSE,
                                       !.lastTrust = <<>>, !.lastLookup = <<>>]
          ELSE /\ cfgWrite' = [old |-> old, new |-> new]
               /\ hist' = [hist EXCEPT !.cfgError = FALSE,
                                       !.lastTrust = <<>>, !.lastLookup = <<>>]

\* setPhysicalPathConfiguration(pathNetwork, pathConfig), called by one
\* configuring thread at a time: a new network with the table full is an
\* error and changes nothing; otherwise the first store towards the new table.
setPhysicalPathConfiguration(pathNetwork, pathConfig) ==
    /\ cfgWrite = NoWrite
    /\ IF TableFull(pathNetwork, pathConfig)
       THEN /\ UNCHANGED physVars
            /\ hist' = [hist EXCEPT !.cfgError = TRUE,
                                    !.lastTrust = <<>>, !.lastLookup = <<>>]
       ELSE LET new == NewTable(pathNetwork, pathConfig)
            IN IF new = Table
               THEN /\ UNCHANGED physVars
                    /\ hist' = [hist EXCEPT !.cfgError = FALSE,
                                            !.lastTrust = <<>>, !.lastLookup = <<>>]
               ELSE \E c \in Stores : StoreStep(Table, new, c)
    /\ UNCHANGED <<peerVars, pathVars, lockVars, threadVars>>

\* setPhysicalPathConfiguration: a further store of the call in progress.
setPhysicalPathConfiguration_store(c) ==
    /\ cfgWrite # NoWrite
    /\ StoreStep(cfgWrite.old, cfgWrite.new, c)
    /\ UNCHANGED <<peerVars, pathVars, lockVars, threadVars>>

(***************************** specifications ******************************)
Init ==
    /\ _peers = [a \in Addrs |-> NullPeer]
    /\ _roots = {}
    /\ _rootPeers = <<>>
    /\ _paths = [slots |-> {}, val |-> [k \in Keys |-> NullPath]]
    /\ pathsMade = 0
    /\ _peers_l = [w |-> 0, r |-> {}]
    /\ _paths_l = [w |-> 0, r |-> {}]
    /\ _physicalPathConfig =
          [i \in 1..ZT_MAX_CONFIGURABLE_PATHS |-> [first |-> NilNet, second |-> NoConfig]]
    /\ _numConfiguredPhysicalPaths = 0
    /\ cfgWrite = NoWrite
    /\ pc = [t \in Threads |-> "idle"]
    /\ arg = [t \in Threads |-> 0]
    /\ loc = [t \in Threads |-> NoLoc]
    /\ hist = [canon |-> [a \in Addrs |-> NullPeer],
               split |-> [a \in Addrs |-> FALSE],
               gotFirst |-> [a \in Addrs |-> NullPeer],
               differs |-> [a \in Addrs |-> FALSE],
               evictedAfterGot |-> [a \in Addrs |-> FALSE],
               canonicalized |-> FALSE,
               lastId |-> <<>>,
               lastQuery |-> <<>>,
               pathCanon |-> [k \in Keys |-> NullPath],
               pathSplit |-> [k \in Keys |-> FALSE],
               pathEvicted |-> [k \in Keys |-> FALSE],
               lastPath |-> <<>>,
               lastTrust |-> <<>>,
               lastLookup |-> <<>>,
               cfgError |-> FALSE]

\* the peer registry with the root set and the periodic sweep
NextPeers ==
    \E t \in Threads :
        \/ \E p \in PeerObjs : addCall(t, p)
        \/ add(t)
        \/ \E a \in Addrs : get(t, a)
        \/ \E id \in Identities : addRoot(t, id)
        \/ \E id \in Identities : removeRoot(t, id)
        \/ \E now \in Times : rankRoots(t, now)
        \/ \E now \in Times : doPeriodicTasks_lockPeers(t, now)
        \/ \E S \in SUBSET Addrs : doPeriodicTasks_peers(t, S)
        \/ doPeriodicTasks_lockPaths(t)
        \/ \E S \in SUBSET Keys : doPeriodicTasks_paths(t, S)

SpecPeers == Init /\ [][NextPeers]_vars

\* traversals of the registry beside registrations, lookups and the sweep
NextEach ==
    \E t \in Threads :
        \/ \E p \in PeerObjs : addCall(t, p)
        \/ add(t)
        \/ \E a \in Addrs : getIdentity(t, a)
        \/ eachPeer_begin(t)
        \/ \E b \in BOOLEAN : eachPeer_visit(t, b)
        \/ \E p \in PeerObjs : eachPeer_visitAdd(t, p)
        \/ eachPeer_end(t)
        \/ \E now \in Times : doPeriodicTasks_lockPeers(t, now)
        \/ \E S \in SUBSET Addrs : doPeriodicTasks_peers(t, S)
        \/ doPeriodicTasks_lockPaths(t)
        \/ \E S \in SUBSET Keys : doPeriodicTasks_paths(t, S)

SpecEach == Init /\ [][NextEach]_vars

\* the path cache beside the sweep and the traversals
NextPaths ==
    \E t \in Threads :
        \/ \E k \in Keys : getPath_rlock(t, k)
        \/ \E kept \in BOOLEAN : getPath_lookup(t, kept)
        \/ getPath_runlock(t)
        \/ getPath_lock(t)
        \/ \E ok \in BOOLEAN : getPath_create(t, ok)
        \/ \E p \in PeerObjs : addCall(t, p)
        \/ add(t)
        \/ eachPeer_begin(t)
        \/ \E b \in BOOLEAN : eachPeer_visit(t, b)
        \/ eachPeer_end(t)
        \/ \E now \in Times : doPeriodicTasks_lockPeers(t, now)
        \/ \E S \in SUBSET Addrs : doPeriodicTasks_peers(t, S)
        \/ doPeriodicTasks_lockPaths(t)
        \/ \E S \in SUBSET Keys : doPeriodicTasks_paths(t, S)

SpecPaths == Init /\ [][NextPaths]_vars

\* the physical path configuration table
NextPhys ==
    \/ \E net \in Subnets : \E c \in PathConfigs \cup {NoConfig} :
          setPhysicalPathConfiguration(net, c)
    \/ \E c \in Stores : setPhysicalPathConfiguration_store(c)
    \/ \E addr \in PhysAddrs : \E id \in TrustIds :
          shouldInboundPathBeTrusted_call(addr, id)
    \/ \E addr \in PhysAddrs : \E out \in Outs :
          getOutboundPathInfo_call(addr, out)
    \/ \E addr \in PhysAddrs : getOutboundPathTrust_call(addr)

SpecPhys == Init /\ [][NextPhys]_vars

\* the root set beside registrations and the sweep
NextRoots ==
    \E t \in Threads :
        \/ \E p \in PeerObjs : addCall(t, p)
        \/ add(t)
        \/ \E id \in Identities : addRoot(t, id)
        \/ \E id \in Identities : removeRoot(t, id)
        \/ \E now \in Times : rankRoots(t, now)
        \/ \E now \in Times : doPeriodicTasks_lockPeers(t, now)
        \/ \E S \in SUBSET Addrs : doPeriodicTasks_peers(t, S)
        \/ doPeriodicTasks_lockPaths(t)
        \/ \E S \in SUBSET Keys : doPeriodicTasks_paths(t, S)

SpecRoots == Init /\ [][NextRoots]_vars

\* the queries of the registry and the root set beside their mutations
NextQueries ==
    \E t \in Threads :
        \/ \E p \in PeerObjs : addCall(t, p)
        \/ add(t)
        \/ \E a \in Addrs : get(t, a)
        \/ \E a \in Addrs : getIdentity(t, a)
        \/ root_call(t)
        \/ \E id \in Identities : isRoot_call(t, id)
        \/ \E now \in Times : \E a \in Addrs : findRelayTo_call(t, now, a)
        \/ \E id \in Identities : addRoot(t, id)
        \/ \E id \in Identities : removeRoot(t, id)
        \/ \E now \in Times : rankRoots(t, now)

SpecQueries == Init /\ [][NextQueries]_vars

Next == NextPeers \/ NextRoots \/ NextEach \/ NextPaths \/ NextPhys \/ NextQueries

Spec == Init /\ [][Next]_vars

(********************************* claims **********************************)
MyAddress == IdAddress(_myIdentity)
Registered(id) == \E p \in PeerObjs : PeerIdentity(p) = id /\ _peers[PeerAddress(p)] = p
Ranked(id) == \E i \in 1..Len(_rootPeers) : PeerIdentity(_rootPeers[i]) = id

\* C1: of the different Peer objects that add calls carry for one address,
\* one becomes canonical: every add and every get for the address answers
\* with that object, which is the registered one.
C1_PeerCanonical ==
    \A a \in Addrs :
        /\ ~hist.split[a]
        /\ hist.canon[a] # NullPeer => _peers[a] = hist.canon[a]

\* C1 witness: an add was answered with another object than it carried, and
\* a get for an address was answered with the canonical object.
C1_Witness ==
    /\ hist.canonicalized
    /\ \E a \in Addrs : hist.canon[a] # NullPeer /\ hist.gotFirst[a] = hist.canon[a]

\* C2 as stated: without a sweep of the key, every getPath for a key returns
\* the one Path object constructed for it (so never the empty handle).
C2_Original ==
    \A k \in Keys :
        ~hist.pathEvicted[k] =>
            /\ ~hist.pathSplit[k]
            /\ (hist.lastPath # <<>> /\ hist.lastPath[1] = k) => hist.lastPath[2] # NullPath

\* C2 amended: without a sweep of the key, at most one Path object is
\* constructed for a key, and every getPath that returns a non-empty handle
\* returns that object.
C2_PathCanonical ==
    \A k \in Keys : ~hist.pathEvicted[k] => ~hist.pathSplit[k]

\* C2 witness: a getPath returned the object constructed for its key while
\* another thread, after a miss of its own, holds the exclusive lock for
\* the same key.
C2_Witness ==
    \E k \in Keys : \E t \in Threads :
        /\ ~hist.pathEvicted[k]
        /\ hist.pathCanon[k] # NullPath
        /\ hist.lastPath = <<k, hist.pathCanon[k], FALSE>>
        /\ pc[t] = "gp_w" /\ arg[t] = k

\* C3: shouldInboundPathBeTrusted(addr, id) is true exactly when a configured
\* entry has a network containing addr and the trusted path id id.
C3_TrustGating ==
    \A addr \in PhysAddrs : \A id \in TrustIds :
        shouldInboundPathBeTrusted(addr, id) <=>
            \E i \in 1.._numConfiguredPhysicalPaths :
                /\ containsAddress(_physicalPathConfig[i].first, addr)
                /\ _physicalPathConfig[i].second.trustedPathId = id

\* C3 witness: a call answered true for an id that is not the id of the first
\* network containing the address, and the same id is refused for an address
\* outside the network that carries it.
C3_Witness ==
    /\ Len(hist.lastTrust) = 3
    /\ hist.lastTrust[3]
    /\ shouldInboundPathBeTrusted(hist.lastTrust[1], hist.lastTrust[2])
    /\ getOutboundPathTrust(hist.lastTrust[1]) # hist.lastTrust[2]
    /\ \E addr \in PhysAddrs : ~shouldInboundPathBeTrusted(addr, hist.lastTrust[2])

\* C4 as stated: every ranked peer's identity is a root, and every root
\* identity has its peer ranked or has no registered peer.
C4_RootInvariant ==
    /\ \A i \in 1..Len(_rootPeers) : PeerIdentity(_rootPeers[i]) \in _roots
    /\ \A id \in _roots : Ranked(id) \/ ~Registered(id)

\* C5: right after rankRoots(now) the ranked list ascends in latency at now,
\* holds the peer of every root identity that has one registered, holds
\* nothing else, and the membership set is as before.
C5_RankingOrder ==
    [][\A t \in Threads : \A now \in Times :
          rankRoots(t, now) =>
              /\ IsSortedAt(_rootPeers', now)
              /\ \A p \in PeerObjs :
                    (\E i \in 1..Len(_rootPeers') : _rootPeers'[i] = p)
                        <=> (PeerIdentity(p) \in _roots /\ _peers[PeerAddress(p)] = p)
              /\ _roots' = _roots]_vars

\* C5 witness: two ranked roots of different latency and a root identity
\* without a registered peer, which is not ranked.
C5_Witness ==
    /\ Len(_rootPeers) = 2
    /\ \E now \in Times : Latency(_rootPeers[1], now) < Latency(_rootPeers[2], now)
    /\ \E id \in _roots : ~Registered(id) /\ ~Ranked(id)

\* C6: while eachPeer runs the registry is what it was at the start; no peer
\* is visited twice, every visited peer was registered at the start, and a
\* traversal that was not stopped has visited all of them at its end.
C6_IterationSnapshot ==
    \A t \in Threads :
        pc[t] = "each" =>
            LET v == loc[t].visited
                atStart == {loc[t].start[a] : a \in Addrs} \ {NullPeer}
            IN /\ _peers = loc[t].start
               /\ \A i \in 1..Len(v) : \A j \in 1..Len(v) : v[i] = v[j] => i = j
               /\ \A i \in 1..Len(v) : v[i] \in atStart
               /\ (~loc[t].stopped /\ IterNext(loc[t].cursor) = 0)
                     => {v[i] : i \in 1..Len(v)} = atStart

\* C6 witness: a traversal has visited all the peers, and another thread is
\* waiting in add with a peer of an address that is not registered.
C6_Witness ==
    \E t \in Threads : \E u \in Threads :
        /\ pc[t] = "each" /\ ~loc[t].stopped
        /\ Len(loc[t].visited) >= 1 /\ IterNext(loc[t].cursor) = 0
        /\ pc[u] = "add" /\ _peers[PeerAddress(arg[u])] = NullPeer

\* C7 as stated: once get answered with an object for an address, no add or
\* get for the address answers with another object.
C7_Original == \A a \in Addrs : ~hist.differs[a]

\* C7 amended: once get answered with an object for an address, add and get
\* answer with another object only after doPeriodicTasks removed the entry.
C7_OnePeerUntilEvicted ==
    \A a \in Addrs : hist.differs[a] => hist.evictedAfterGot[a]

\* C7 witness: get answered for an address that was never swept since, an add
\* carried another object than the one registered, and roots are ranked.
C7_Witness ==
    /\ hist.canonicalized
    /\ _rootPeers # <<>>
    /\ \E a \in Addrs : hist.gotFirst[a] # NullPeer /\ ~hist.evictedAfterGot[a]

\* C8: getIdentity of the local address answers the local identity whatever
\* is registered, and can always run: it needs no lock.
C8_SelfIdentity ==
    /\ (hist.lastId # <<>> /\ hist.lastId[1] = MyAddress) => hist.lastId[3] = _myIdentity
    /\ \A t \in Threads : pc[t] = "idle" => ENABLED getIdentity(t, MyAddress)

\* C8 witness: the local identity was answered while a peer of another
\* identity was registered under the local address, and a thread holds the
\* exclusive peer lock.
C8_Witness ==
    /\ Len(hist.lastId) = 3
    /\ hist.lastId[1] = MyAddress
    /\ hist.lastId[2] # NullPeer
    /\ PeerIdentity(hist.lastId[2]) # _myIdentity
    /\ _peers_l.w # 0

\* C9: getPath returns the empty handle only when the construction failed,
\* and a thread holds the path lock only inside a call that uses it.
C9_NoLockAfterReturn ==
    /\ (hist.lastPath # <<>> /\ hist.lastPath[2] = NullPath) => hist.lastPath[3]
    /\ \A t \in Threads :
          Holds(_paths_l, t) => pc[t] \in {"gp_r", "gp_r2", "gp_w", "dpt_paths"}

\* C9 witness: a getPath returned the empty handle after a failed
\* construction and a thread has taken the exclusive path lock since.
C9_Witness ==
    /\ Len(hist.lastPath) = 3
    /\ hist.lastPath[2] = NullPath /\ hist.lastPath[3]
    /\ \E t \in Threads : pc[t] = "gp_w"

\* C10: no thread holds the peer lock and the path lock at once.
C10_LocksNeverNested ==
    \A t \in Threads : ~(Holds(_peers_l, t) /\ Holds(_paths_l, t))

\* C10 witness: doPeriodicTasks holds the path lock after it held the peer
\* lock, while another thread traverses the registry under the peer lock.
C10_Witness ==
    \E t \in Threads : \E u \in Threads :
        /\ pc[t] = "dpt_paths" /\ _paths_l.w = t
        /\ pc[u] = "each" /\ u \in _peers_l.r

\* C11: removeRoot(id) for an identity that is no member returns false and
\* leaves the membership set, the ranked list and the registry as they were.
C11_RemoveAbsentRoot ==
    [][\A t \in Threads : \A id \in Identities :
          (id \notin _roots /\ removeRoot(t, id)) =>
              /\ removeRootReturn(id) = FALSE
              /\ UNCHANGED <<_roots, _rootPeers, _peers>>]_vars

\* C11 witness: an identity that is no member has a registered peer, beside
\* members of which one is ranked and one is not: removeRoot of the first
\* has all three structures to leave alone.
C11_Witness ==
    /\ \E id \in Identities \ _roots : Registered(id)
    /\ \E id \in _roots : Ranked(id)
    /\ \E id \in _roots : ~Ranked(id)
    /\ \E t \in Threads : \E id \in Identities \ _roots : ENABLED removeRoot(t, id)

\* C12: addRoot(id) leaves the ranked list and the registry as they were and
\* makes id a member; called for a member (so a second time in a row) it
\* leaves the membership set as it was too.
C12_AddRootIdempotent ==
    [][\A t \in Threads : \A id \in Identities :
          addRoot(t, id) =>
              /\ _rootPeers' = _rootPeers
              /\ _peers' = _peers
              /\ _roots' = _roots \cup {id}
              /\ id \in _roots => _roots' = _roots]_vars

\* C12 witness: a member whose peer is registered and not ranked, beside a
\* ranked one: addRoot made it a member and left the ranked list alone.
C12_Witness ==
    /\ \E id \in _roots : Registered(id) /\ ~Ranked(id)
    /\ \E id \in _roots : Ranked(id)
    /\ \E t \in Threads : \E id \in _roots : ENABLED addRoot(t, id)

\* C14: findRelayTo(now, toAddr) answers what root() answers in the same
\* state, whatever the time and the destination: the first ranked root, or
\* the empty handle when none is ranked.
C14_RelayIsRoot ==
    \A now \in Times : \A toAddr \in Addrs :
        /\ findRelayTo(now, toAddr) = root
        /\ root = IF Len(_rootPeers) = 0 THEN NullPeer ELSE _rootPeers[1]

\* C14 witness: the latest findRelayTo was asked for a destination that is
\* itself the second of two ranked roots, and answered the first, as root().
C14_Witness ==
    /\ Len(hist.lastQuery) = 3
    /\ hist.lastQuery[1] = "findRelayTo"
    /\ Len(_rootPeers) = 2
    /\ _peers[hist.lastQuery[2]] = _rootPeers[2]
    /\ hist.lastQuery[3] = _rootPeers[1]
    /\ hist.lastQuery[3] = root

\* thread t is in an add that a visitor of its own eachPeer called
InVisitorAdd(t) == pc[t] = "add" /\ loc[t].k = "each"

\* C15: a thread whose visitor called add inside eachPeer holds the shared
\* peer lock, so the exclusive lock it asks for cannot be had; it stays in
\* that add, still holding the shared lock, in every step: the add does not
\* return and the traversal does not end.
C15_VisitorAddDeadlock ==
    [][\A t \in Threads :
          InVisitorAdd(t) =>
              /\ t \in _peers_l.r
              /\ ~CanLock(_peers_l)
              /\ pc'[t] = "add"
              /\ loc'[t] = loc[t]
              /\ t \in _peers_l'.r
              /\ _peers' = _peers]_vars

\* C15 witness: a thread is in such an add after visiting a peer, and another
\* thread waits in an add of its own.
C15_Witness ==
    \E t \in Threads : \E u \in Threads :
        /\ InVisitorAdd(t)
        /\ Len(loc[t].visited) >= 1
        /\ ~ENABLED add(t)
        /\ u # t /\ pc[u] = "add" /\ loc[u].k = "none"

\* a step of one of the five read-only queries by thread t
QueryStep(t) ==
    \/ \E a \in Addrs : get(t, a)
    \/ \E a \in Addrs : getIdentity(t, a)
    \/ root_call(t)
    \/ \E id \in Identities : isRoot_call(t, id)
    \/ \E now \in Times : \E a \in Addrs : findRelayTo_call(t, now, a)

\* C17 as stated: get, getIdentity, root, isRoot and findRelayTo leave the
\* registry, the membership set and the ranked list as they were, and get
\* and getIdentity of an unregistered address answer empty.
C17_Original ==
    [][\A t \in Threads :
          /\ UNCHANGED <<_peers, _roots, _rootPeers>> \/ ~QueryStep(t)
          /\ \A a \in Addrs :
                (_peers[a] = NullPeer /\ get(t, a)) => getReturn(a) = NullPeer
          /\ \A a \in Addrs :
                (_peers[a] = NullPeer /\ getIdentity(t, a))
                    => hist'.lastId[3] = NullIdentity]_vars

\* C17 amended: the same, but getIdentity of an unregistered address answers
\* the empty identity only when the address is not the local one; for the
\* local address it answers the local identity.
C17_QueriesReadOnly ==
    [][\A t \in Threads :
          /\ UNCHANGED <<_peers, _roots, _rootPeers>> \/ ~QueryStep(t)
          /\ \A a \in Addrs :
                (_peers[a] = NullPeer /\ get(t, a)) => getReturn(a) = NullPeer
          /\ \A a \in Addrs :
                (_peers[a] = NullPeer /\ getIdentity(t, a))
                    => hist'.lastId[3] =
                          IF a = MyAddress THEN _myIdentity ELSE NullIdentity]_vars

\* C17 witness: the latest query asked the identity of an address that is
\* not the local one and not registered, and was answered empty, while peers
\* are registered, roots are members and one is ranked.
C17_Witness ==
    /\ Len(hist.lastId) = 3
    /\ hist.lastId[1] # MyAddress
    /\ hist.lastId[2] = NullPeer
    /\ hist.lastId[3] = NullIdentity
    /\ _peers[hist.lastId[1]] = NullPeer
    /\ \E a \in Addrs : _peers[a] # NullPeer
    /\ _rootPeers # <<>>
    /\ Cardinality(_roots) >= 2

\* the lowest index (1-based) of a configured entry containing addr, or 0
FirstMatch(tbl, addr) ==
    LET m == {i \in 1..tbl.n : containsAddress(tbl.cfg[i].first, addr)}
    IN IF m = {} THEN 0 ELSE CHOOSE i \in m : \A k \in m : i <= k

\* the answers of the three lookups on a whole table tbl
InfoOn(tbl, addr, out) ==
    IF FirstMatch(tbl, addr) = 0 THEN out
    ELSE [trustedPathId |-> tbl.cfg[FirstMatch(tbl, addr)].second.trustedPathId,
          mtu |-> tbl.cfg[FirstMatch(tbl, addr)].second.mtu]
TrustOn(tbl, addr) ==
    IF FirstMatch(tbl, addr) = 0 THEN 0
    ELSE tbl.cfg[FirstMatch(tbl, addr)].second.trustedPathId
InboundOn(tbl, addr, id) ==
    \E i \in 1..tbl.n : /\ containsAddress(tbl.cfg[i].first, addr)
                        /\ tbl.cfg[i].second.trustedPathId = id

C16_OutboundPathInfo ==
    \A addr \in PhysAddrs : \A out \in PathConfigs \cup {NoConfig} :
        getOutboundPathInfo(addr, out) = InfoOn(Table, addr, out)

\* C16 witness: the latest call found two entries of different values
\* containing its address and answered with the first, changing the result
\* variables, while another address is in no configured network.
C16_Witness ==
    /\ Len(hist.lastLookup) = 4
    /\ hist.lastLookup[1] = "info"
    /\ _numConfiguredPhysicalPaths = 2
    /\ containsAddress(_physicalPathConfig[1].first, hist.lastLookup[2])
    /\ containsAddress(_physicalPathConfig[2].first, hist.lastLookup[2])
    /\ _physicalPathConfig[1].second # _physicalPathConfig[2].second
    /\ hist.lastLookup[4] = _physicalPathConfig[1].second
    /\ hist.lastLookup[4] # hist.lastLookup[3]
    /\ \E addr \in PhysAddrs : FirstMatch(Table, addr) = 0

\* C18 as stated: the path cache changes only in a step of a thread that
\* holds the path lock in exclusive mode.
C18_CacheWrittenUnderExclusiveLock ==
    [][_paths' # _paths => _paths_l.w # 0]_vars

\* C19 as stated: while setPhysicalPathConfiguration is at work, each of the
\* three lookups answers what it answers on the whole table of before the
\* call or on the whole table of after it.
C19_WholeTable ==
    cfgWrite # NoWrite =>
        \A addr \in PhysAddrs :
            /\ \A out \in Outs :
                  getOutboundPathInfo(addr, out) \in
                      {InfoOn(cfgWrite.old, addr, out), InfoOn(cfgWrite.new, addr, out)}
            /\ getOutboundPathTrust(addr) \in
                  {TrustOn(cfgWrite.old, addr), TrustOn(cfgWrite.new, addr)}
            /\ \A id \in TrustIds :
                  shouldInboundPathBeTrusted(addr, id) \in
                      {InboundOn(cfgWrite.old, addr, id), InboundOn(cfgWrite.new, addr, id)}

\* C20 as stated: shouldInboundPathBeTrusted(addr, 0) is false for every
\* address, whatever the table holds.
C20_ZeroNeverTrusted ==
    \A addr \in PhysAddrs : ~shouldInboundPathBeTrusted(addr, 0)

====
